---- MODULE Spec2Model ----
(***************************************************************************)
(* Electrical thermostat: a producer thread publishes timed pulses into a  *)
(* one-slot mailbox, the main thread keeps a linked list of recent pulses  *)
(* sorted by width, evaluates its median against a threshold with a        *)
(* sustain time, and publishes a warning flag that a third thread turns    *)
(* into an intermittent On/Off signal through a table-driven state         *)
(* machine.                                                                *)
(*                                                                         *)
(* The list is modelled as a heap of nodes with explicit addresses, so     *)
(* that frees, dangling pointers and address reuse are visible.  The       *)
(* content of a freed node is whatever the allocator leaves there: its     *)
(* width field (the first bytes of the chunk) is chosen nondeterminis-     *)
(* tically when the node is freed.  malloc may hand out any address that   *)
(* is not live, a freed one still referenced by the list included.         *)
(*                                                                         *)
(* Both the producer's publication and the main thread's loop body run     *)
(* under pulses_cs, so they are atomic with respect to each other; the     *)
(* main loop body is split at its calls (eviction, insertion, evaluation). *)
(* Sleep() is a lower bound on a delay; time advances in steps of          *)
(* TickSteps.                                                              *)
(*                                                                         *)
(* Specifications: Spec (the three loops, iteration by iteration),         *)
(* SpecShutdown (Spec with the deadline, the exit events and the joins,    *)
(* under fair scheduling), SpecLocks (the three loops statement by         *)
(* statement: critical sections and log writes), and the harnesses         *)
(* SpecFSM (Transition), SpecMedian (FindMedian), SpecInsert (InsertPulse).*)
(***************************************************************************)
EXTENDS Integers, Sequences, FiniteSets, TLC

\* ---------------------------------------------------------------- bounds
MaxNodes == 5          \* heap addresses 1..MaxNodes
MaxTime == 2500        \* the clock stops advancing here
MaxCalls == 5          \* Transition calls in the state machine harness
Widths == {40, 70, 71} \* pulse widths drawn by the generator (within [30, 80])
TickSteps == {500}     \* clock advance of one scheduling delay, milliseconds
ShutdownWidths == {70} \* pulse widths drawn in the shutdown and lock specifications

\* ------------------------------------------------------ program constants
ONE_SEC == 1000
warning_threshold == 1000
temp_warning_threshold == 70
warning_duration == 4

NULL == 0
Addr == 1..MaxNodes

VARIABLES
  now,                      \* GetSystemTime()
  pulse,                    \* the shared mailbox: valid, width, timestamp
  nodes, stat, head_ptr,    \* heap content, heap status, main's list head
  pcMain,                   \* position of the main loop
  temp_median2,             \* twice temp_median (a double with half steps)
  current_time,             \* main's current_time of its last evaluation
  warning_alert_flag, warning_alert_timestamp,
  warnings_flag,            \* the published warning flag
  evict,                    \* record of the last eviction pass
  uaf,                      \* calls of this iteration that read freed memory
  lost, inserted,           \* timestamps of pulses overwritten unread / inserted
  crossT,                   \* time the median was first found above, or -1
  prev_alert,               \* warning_alert_flag before the last evaluation
  sm_curr_state, warning_on_timestamp, warning_off_timestamp,
  annRead,                  \* what the warnings thread last read the flag as
  fired,                    \* state functions invoked by the last Transition
  transT,                   \* times of the warnings thread's last two transitions
  logged,                   \* the state functions invoked so far: first, last two
  eventTrail, stateTrail, actionTrail, \* harness history of Transition calls
  expired,                  \* GetSystemTime() >= start_time + measurement_duration_limit
  pulses_event, warnings_event, \* the two manual-reset exit events
  pcPulses, pcWarnings,     \* "run" or "done": the two worker threads
  late,                     \* workers that began an iteration with their own event set
  pc,                       \* lock-level position of each thread
  owner,                    \* the thread inside each critical section, or "free"
  open,                     \* the thread whose log line is unfinished, or "none"
  mixed,                    \* a thread wrote inside another thread's unfinished line
  bare                      \* a thread wrote to the log without holding prints_cs

winVars == <<nodes, stat, head_ptr, temp_median2, evict, uaf, inserted>>
alertVars == <<current_time, warning_alert_flag, warning_alert_timestamp, warnings_flag,
               crossT, prev_alert>>
boxVars == <<pulse, lost>>
fsmVars == <<sm_curr_state, warning_on_timestamp, warning_off_timestamp, annRead, fired,
             transT, logged>>
trailVars == <<eventTrail, stateTrail, actionTrail>>
shutVars == <<expired, pulses_event, warnings_event, pcPulses, pcWarnings, late>>
lockVars == <<pc, owner, open, mixed, bare>>
vars == <<now, pcMain, winVars, alertVars, boxVars, fsmVars, trailVars, shutVars, lockVars>>

\* ------------------------------------------------------------------ heap
EmptyNode == [width |-> 0, timestamp |-> 0, next |-> NULL]

Range(q) == {q[i] : i \in 1..Len(q)}

Min(S) == CHOOSE x \in S : \A y \in S : x <= y

\* The nodes met following next from h, up to NULL; cut after MaxNodes + 1
\* nodes, which only a cyclic list reaches.
RECURSIVE ChainFrom(_, _, _)
ChainFrom(h, ns, fuel) ==
  IF h = NULL \/ fuel = 0 THEN <<>>
  ELSE <<h>> \o ChainFrom(ns[h].next, ns, fuel - 1)

Chain(h, ns) == ChainFrom(h, ns, MaxNodes + 1)

Cyclic(h, ns) == Len(Chain(h, ns)) > MaxNodes

Sample(n) == [width |-> n.width, timestamp |-> n.timestamp]

\* struct Node* MakeNode(Pulse pulse): the node at address a (NULL when malloc
\* failed) holds a copy of the pulse and a NULL link.
MakeNode(a, p, ns) ==
  IF a = NULL THEN ns
  ELSE [ns EXCEPT ![a] = [width |-> p.width, timestamp |-> p.timestamp, next |-> NULL]]

\* The addresses malloc may return: the lowest unused one, or a freed one the
\* list still refers to; NULL when the heap is exhausted.
MallocChoices(st) ==
  LET unused == {a \in Addr : st[a] = "free"}
      dangling == {a \in Addr : st[a] = "freed"}
  IN dangling \cup (IF unused # {} THEN {Min(unused)}
                    ELSE IF dangling = {} THEN {NULL} ELSE {})

\* free(tmp) inside DeleteStalePulses
FreeNode(a, acc) ==
  [acc EXCEPT !.stat[a] = "freed",
              !.freed = Append(@, a),
              !.removed = Append(@, Sample(acc.nodes[a])),
              !.dbl = @ \/ (acc.stat[a] # "live")]

ReadNode(a, acc) == [acc EXCEPT !.uaf = @ \/ (acc.stat[a] # "live")]

StaleNode(n, timestamp) == n.timestamp + ONE_SEC < timestamp

\* while ((head_ptr != NULL) && ((head_ptr->pulse.timestamp + ONE_SEC) < timestamp))
RECURSIVE HeadLoop(_, _, _, _)
HeadLoop(h, timestamp, acc, fuel) ==
  IF h = NULL \/ fuel = 0 THEN [head |-> h, acc |-> acc]
  ELSE IF StaleNode(acc.nodes[h], timestamp)
       THEN HeadLoop(acc.nodes[h].next, timestamp, FreeNode(h, ReadNode(h, acc)), fuel - 1)
       ELSE [head |-> h, acc |-> ReadNode(h, acc)]

\* The inner loop unlinking the node after the stale one as well
RECURSIVE MidLoop_SkipNext(_, _, _, _, _)
MidLoop_SkipNext(curr, prev, timestamp, acc, fuel) ==
  IF curr = NULL \/ fuel = 0 THEN acc
  ELSE LET a1 == ReadNode(curr, acc)
           nxt == a1.nodes[curr].next
       IN IF StaleNode(a1.nodes[curr], timestamp)
          THEN LET a2 == [a1 EXCEPT !.nodes[prev].next =
                                      IF nxt = NULL THEN NULL ELSE a1.nodes[nxt].next,
                                    !.printed = Append(@, Sample(a1.nodes[curr]))]
               IN MidLoop_SkipNext(nxt, prev, timestamp, FreeNode(curr, a2), fuel - 1)
          ELSE MidLoop_SkipNext(nxt, curr, timestamp, a1, fuel - 1)

\* while (curr_ptr != NULL) { unlink, print and free a stale node, else advance }
RECURSIVE MidLoop(_, _, _, _, _)
MidLoop(curr, prev, timestamp, acc, fuel) ==
  IF curr = NULL \/ fuel = 0 THEN acc
  ELSE LET a1 == ReadNode(curr, acc)
           nxt == a1.nodes[curr].next
       IN IF StaleNode(a1.nodes[curr], timestamp)
          THEN LET a2 == [a1 EXCEPT !.nodes[prev].next = nxt,
                                    !.printed = Append(@, Sample(a1.nodes[curr]))]
               IN MidLoop(nxt, prev, timestamp, FreeNode(curr, a2), fuel - 1)
          ELSE MidLoop(nxt, curr, timestamp, a1, fuel - 1)

\* struct Node* DeleteStalePulses(struct Node* head_ptr, uint64_t timestamp, FILE*)
\* head: the value returned; nodes, stat: the heap after the pass; freed: the
\* addresses passed to free(), in order; removed: the samples they held;
\* printed: the samples written after "Stale:"; dbl: an address was freed that
\* was not live; uaf: a node was read that was not live.
DeleteStalePulses(head, timestamp, ns, st) ==
  LET acc0 == [nodes |-> ns, stat |-> st, freed |-> <<>>, removed |-> <<>>,
               printed |-> <<>>, dbl |-> FALSE, uaf |-> FALSE]
  IN IF head = NULL THEN [head |-> NULL, acc |-> acc0]
     ELSE LET p1 == HeadLoop(head, timestamp, acc0, MaxNodes + 1)
          IN [head |-> p1.head,
              acc |-> MidLoop(p1.head, p1.head, timestamp, p1.acc, MaxNodes + 1)]

\* Freed memory nothing refers to any more is indistinguishable from unused
\* memory: it is returned to the pool of unused addresses.
Reclaim(ns, st, h) ==
  LET reach == Range(Chain(h, ns))
      gone(a) == st[a] # "live" /\ a \notin reach
  IN [nodes |-> [a \in Addr |-> IF gone(a) THEN EmptyNode ELSE ns[a]],
      stat |-> [a \in Addr |-> IF gone(a) THEN "free" ELSE st[a]]]

\* The locate loop walking past the nodes of equal width too
RECURSIVE Locate_LE(_, _, _, _)
Locate_LE(curr, w, ns, fuel) ==
  IF fuel > 0 /\ ns[curr].next # NULL /\ ns[ns[curr].next].width <= w
  THEN LET r == Locate_LE(ns[curr].next, w, ns, fuel - 1)
       IN [curr |-> r.curr, reads |-> {curr, ns[curr].next} \cup r.reads]
  ELSE [curr |-> curr,
        reads |-> {curr} \cup (IF ns[curr].next # NULL THEN {ns[curr].next} ELSE {})]

\* while ((curr_ptr->next != NULL) && (curr_ptr->next->pulse.width < new_node_ptr->pulse.width))
RECURSIVE Locate(_, _, _, _)
Locate(curr, w, ns, fuel) ==
  IF fuel > 0 /\ ns[curr].next # NULL /\ ns[ns[curr].next].width < w
  THEN LET r == Locate(ns[curr].next, w, ns, fuel - 1)
       IN [curr |-> r.curr, reads |-> {curr, ns[curr].next} \cup r.reads]
  ELSE [curr |-> curr,
        reads |-> {curr} \cup (IF ns[curr].next # NULL THEN {ns[curr].next} ELSE {})]

\* void InsertPulse(struct Node** head_ptr, struct Node* new_node_ptr)
InsertPulse(head, new, ns) ==
  IF new = NULL THEN [head_ptr |-> head, nodes |-> ns, reads |-> {}]
  ELSE IF head = NULL
       THEN [head_ptr |-> new, nodes |-> [ns EXCEPT ![new].next = head], reads |-> {}]
  ELSE IF ns[head].width >= ns[new].width
       THEN [head_ptr |-> new, nodes |-> [ns EXCEPT ![new].next = head], reads |-> {head}]
  ELSE LET loc == Locate(head, ns[new].width, ns, MaxNodes + 1)
       IN [head_ptr |-> head,
           nodes |-> [a \in Addr |->
                        IF a = new THEN [ns[a] EXCEPT !.next = ns[loc.curr].next]
                        ELSE IF a = loc.curr THEN [ns[a] EXCEPT !.next = new]
                        ELSE ns[a]],
           reads |-> {head} \cup loc.reads]

\* while ((fast_ptr != NULL) && (fast_ptr->next != NULL))
RECURSIVE MedianWalk(_, _, _, _, _)
MedianWalk(slow, fast, prev, ns, fuel) ==
  IF fuel > 0 /\ fast # NULL /\ ns[fast].next # NULL
  THEN MedianWalk(ns[slow].next, ns[ns[fast].next].next, slow, ns, fuel - 1)
  ELSE [slow_ptr |-> slow, fast_ptr |-> fast, slow_ptr_prev |-> prev]

\* FindMedian with the even case taking the slow pointer's node alone
FindMedian2_NoPrev(head, ns) ==
  IF head = NULL THEN 0
  ELSE 2 * ns[MedianWalk(head, head, head, ns, MaxNodes + 1).slow_ptr].width

\* double FindMedian(Node* head_ptr), as twice its value
FindMedian2(head, ns) ==
  IF head = NULL THEN 0
  ELSE LET r == MedianWalk(head, head, head, ns, MaxNodes + 1)
       IN IF r.fast_ptr # NULL
          THEN 2 * ns[r.slow_ptr].width
          ELSE ns[r.slow_ptr].width + ns[r.slow_ptr_prev].width

\* IsTimeout answering true whatever the time elapsed
IsTimeout_Always(cur, start, limit) == TRUE

\* bool IsTimeout(current_time, start_time, limit_time)
IsTimeout(cur, start, limit) == (cur - start) >= limit

\* The nodes FindMedian reads: the fast pointer's (odd places) and the slow one's.
MedianReads(head, ns) ==
  LET c == Chain(head, ns)
      n == Len(c)
  IN {c[i] : i \in {j \in 1..n : j % 2 = 1 \/ j <= (n \div 2) + 1}}

\* ------------------------------------------------------------------ Init
NoEviction == [T |-> 0, ran |-> FALSE, head |-> NULL, freed |-> <<>>,
               removed |-> <<>>, printed |-> <<>>, dbl |-> FALSE]

\* The history of the state functions the warnings thread has invoked: the
\* first one, the last two, whether the flag was read clear between the last
\* two (gap) and since the last one (idle).
NothingLogged == [first |-> "none", acts |-> <<>>, gap |-> FALSE, idle |-> FALSE]

Log(l, f) ==
  IF f = <<>> THEN l
  ELSE LET all == l.acts \o f
       IN [first |-> IF l.first = "none" THEN f[1] ELSE l.first,
           acts |-> IF Len(all) > 2 THEN SubSeq(all, Len(all) - 1, Len(all)) ELSE all,
           gap |-> l.idle,
           idle |-> FALSE]

Init ==
  /\ now = 0
  /\ pulse = [valid |-> FALSE, width |-> 0, timestamp |-> 0]
  /\ nodes = [a \in Addr |-> EmptyNode]
  /\ stat = [a \in Addr |-> "free"]
  /\ head_ptr = NULL
  /\ pcMain = "poll"
  /\ temp_median2 = 0
  /\ current_time = 0
  /\ warning_alert_flag = FALSE
  /\ warning_alert_timestamp = 0
  /\ warnings_flag = FALSE
  /\ evict = NoEviction
  /\ uaf = {}
  /\ lost = {}
  /\ inserted = {}
  /\ crossT = -1
  /\ prev_alert = FALSE
  /\ sm_curr_state = "STATE_WARNING_OFF"
  /\ warning_on_timestamp = 0
  /\ warning_off_timestamp = 0
  /\ annRead = "none"
  /\ fired = <<>>
  /\ transT = [prev |-> 0, last |-> 0]
  /\ logged = NothingLogged
  /\ eventTrail = <<>>
  /\ stateTrail = <<>>
  /\ actionTrail = <<>>
  /\ expired = FALSE
  /\ pulses_event = FALSE
  /\ warnings_event = FALSE
  /\ pcPulses = "run"
  /\ pcWarnings = "run"
  /\ late = {}
  /\ pc = [main |-> "m85", pulses |-> "p178", warnings |-> "w229"]
  /\ owner = [pulses_cs |-> "free", warnings_cs |-> "free", prints_cs |-> "free"]
  /\ open = "none"
  /\ mixed = FALSE
  /\ bare = FALSE

\* ------------------------------------------------------------ the clock
\* Time passes while the threads sleep or wait to be scheduled.
Tick ==
  /\ pcMain # "crashed"
  /\ \E d \in TickSteps : now + d <= MaxTime /\ now' = now + d
  /\ UNCHANGED <<pcMain, winVars, alertVars, boxVars, fsmVars, trailVars, shutVars, lockVars>>

\* --------------------------------------------------------- the producer
\* Pulse GeneratePulse(lower, upper): a pulse of a width drawn from the range.
GeneratePulse(w) == [valid |-> FALSE, width |-> w, timestamp |-> 0]

\* Lines 183-196: pulse = GeneratePulse(...); ...; pulse.timestamp = now;
\* pulse.valid = true.  What the mailbox held is overwritten.
Publish_KeepUnread(box, p, t) ==
  IF box.valid THEN box ELSE [p EXCEPT !.timestamp = t, !.valid = TRUE]

Publish(box, p, t) == [p EXCEPT !.timestamp = t, !.valid = TRUE]

\* One iteration of GeneratePulses' loop, begun when the exit check of line
\* 178 finds warnings_event_handle not set; the body under pulses_cs: overwrite the
\* mailbox, sleep for the pulse width (d, at least the width), stamp the
\* arrival time, set the valid bit.
GeneratePulsesOf(W) ==
  /\ pcMain \in {"poll", "signalled", "join"}
  /\ pcPulses = "run"
  /\ ~warnings_event
  /\ late' = IF pulses_event THEN late \cup {"pulses"} ELSE late
  /\ \E w \in W, d \in TickSteps :
       /\ d >= w
       /\ now + d <= MaxTime
       /\ now' = now + d
       /\ pulse' = Publish(pulse, GeneratePulse(w), now + d)
  /\ lost' = IF pulse.valid THEN lost \cup {pulse.timestamp} ELSE lost
  /\ UNCHANGED <<pcMain, winVars, alertVars, fsmVars, trailVars, lockVars,
                 expired, pulses_event, warnings_event, pcPulses, pcWarnings>>

GeneratePulses == GeneratePulsesOf(Widths)

\* ------------------------------------------------------ the main thread
\* Taking the pulse and leaving the valid bit as it is
TakePulse_KeepValid(box) == box

\* Line 92: pulse.valid = false
TakePulse(box) == [box EXCEPT !.valid = FALSE]

\* Lines 87-96: enter pulses_cs, take the pulse if valid, run the eviction
\* pass.  The value DeleteStalePulses returns is discarded: head_ptr keeps
\* its value.  A double free may abort the process.
MainEvict ==
  /\ pcMain = "poll"
  /\ ~expired
  /\ pulse.valid
  /\ pulse' = TakePulse(pulse)
  /\ LET r == DeleteStalePulses(head_ptr, pulse.timestamp, nodes, stat)
         m == Reclaim(r.acc.nodes, r.acc.stat, head_ptr)
         left == {a \in Range(r.acc.freed) : m.stat[a] = "freed"}
     IN /\ \E g \in [left -> Widths] :
             nodes' = [a \in Addr |-> IF a \in left
                                      THEN [m.nodes[a] EXCEPT !.width = g[a]]
                                      ELSE m.nodes[a]]
        /\ stat' = m.stat
        /\ evict' = [T |-> pulse.timestamp, ran |-> head_ptr # NULL, head |-> r.head,
                     freed |-> r.acc.freed, removed |-> r.acc.removed,
                     printed |-> r.acc.printed, dbl |-> r.acc.dbl]
        /\ uaf' = IF r.acc.uaf THEN {"DeleteStalePulses"} ELSE {}
        /\ pcMain' \in {"evicted"} \cup (IF r.acc.dbl THEN {"crashed"} ELSE {})
  /\ UNCHANGED <<now, head_ptr, temp_median2, inserted, lost, alertVars, fsmVars, trailVars, shutVars, lockVars>>

\* Line 98: InsertPulse(&head_ptr, MakeNode(pulse))
MainInsert ==
  /\ pcMain = "evicted"
  /\ \E a \in MallocChoices(stat) :
       LET made == MakeNode(a, pulse, nodes)
           r == InsertPulse(head_ptr, a, made)
       IN /\ nodes' = r.nodes
          /\ head_ptr' = r.head_ptr
          /\ stat' = IF a = NULL THEN stat ELSE [stat EXCEPT ![a] = "live"]
          /\ inserted' = IF a = NULL THEN inserted ELSE inserted \cup {pulse.timestamp}
          /\ uaf' = uaf \cup (IF \E x \in r.reads : x # a /\ stat[x] # "live"
                              THEN {"InsertPulse"} ELSE {})
  /\ pcMain' = "inserted"
  /\ UNCHANGED <<now, temp_median2, evict, alertVars, boxVars, fsmVars, trailVars, shutVars, lockVars>>

\* double ConvertPulseWidthToTemp(double pulse_width), for twice the width and
\* as 20000 times the temperature: (pulse_width - 5) * 1.3333
ConvertPulseWidthToTemp(width2) == (width2 - 2 * 5) * 13333

\* Lines 112-130: the alert timestamp is kept while the median is above the
\* threshold and set to the current time otherwise.
AlertTimestamp_NoReset(above, since, cur) == since

AlertTimestamp(above, since, cur) == IF above THEN since ELSE cur

\* Lines 133-134: the value published in warnings_flag
PublishedFlag(alert, cur, since) == alert /\ IsTimeout(cur, since, warning_threshold)

\* Lines 100-138: PrintList, FindMedian, the threshold decision, the
\* publication of warnings_flag, leave pulses_cs.  PrintList never returns
\* on a cyclic list.
MainEvaluate ==
  /\ pcMain = "inserted"
  /\ IF Cyclic(head_ptr, nodes)
     THEN /\ pcMain' = "hung"
          /\ UNCHANGED <<temp_median2, uaf, alertVars>>
     ELSE LET median2 == FindMedian2(head_ptr, nodes)
              above == median2 > 2 * temp_warning_threshold
              since == AlertTimestamp(above, warning_alert_timestamp, now)
          IN /\ temp_median2' = median2
             /\ current_time' = now
             /\ warning_alert_flag' = above
             /\ warning_alert_timestamp' = since
             /\ warnings_flag' = PublishedFlag(above, now, since)
             /\ prev_alert' = warning_alert_flag
             /\ crossT' = IF ~above THEN -1
                          ELSE IF warning_alert_flag THEN crossT ELSE now
             /\ uaf' = uaf
                  \cup (IF \E x \in Range(Chain(head_ptr, nodes)) : stat[x] # "live"
                        THEN {"PrintList"} ELSE {})
                  \cup (IF \E x \in MedianReads(head_ptr, nodes) : stat[x] # "live"
                        THEN {"FindMedian"} ELSE {})
             /\ pcMain' = "poll"
  /\ UNCHANGED <<now, nodes, stat, head_ptr, evict, inserted, boxVars, fsmVars, trailVars, shutVars, lockVars>>

\* ---------------------------------------------------- the state machine
\* state_function[]: the function called on entering each state
state_function ==
  [STATE_WARNING_ON |-> "Warning_On", STATE_WARNING_OFF |-> "Warning_Off"]

\* A matrix whose first row leaves the machine in STATE_WARNING_OFF
state_transition_matrix_StayOff ==
  << [curr_state |-> "STATE_WARNING_OFF", event |-> "EVENT_WARNING_ON",
      next_state |-> "STATE_WARNING_OFF"],
     [curr_state |-> "STATE_WARNING_ON", event |-> "EVENT_WARNING_OFF",
      next_state |-> "STATE_WARNING_OFF"] >>

state_transition_matrix ==
  << [curr_state |-> "STATE_WARNING_OFF", event |-> "EVENT_WARNING_ON",
      next_state |-> "STATE_WARNING_ON"],
     [curr_state |-> "STATE_WARNING_ON", event |-> "EVENT_WARNING_OFF",
      next_state |-> "STATE_WARNING_OFF"] >>

Events == {"EVENT_ANY", "EVENT_WARNING_ON", "EVENT_WARNING_OFF"}

\* for (i = 0; i < rows; i++) if (row matches) { transition; call; break; }
RECURSIVE TransitionFrom(_, _, _)
TransitionFrom(i, curr, event) ==
  IF i > Len(state_transition_matrix) THEN [curr_state |-> curr, fired |-> <<>>]
  ELSE LET row == state_transition_matrix[i]
       IN IF row.curr_state = curr /\ (row.event = event \/ row.event = "EVENT_ANY")
          THEN [curr_state |-> row.next_state,
                fired |-> <<state_function[row.next_state]>>]
          ELSE TransitionFrom(i + 1, curr, event)

\* Transition calling the function of the state it leaves
Transition_CallOld(curr, event) ==
  LET t == TransitionFrom(1, curr, event)
  IN IF t.fired = <<>> THEN t ELSE [t EXCEPT !.fired = <<state_function[curr]>>]

\* Transition taking EVENT_ANY, passed as the event, for a match of any row
Transition_AnyEvent(curr, event) ==
  LET rows == {i \in 1..Len(state_transition_matrix) :
                 state_transition_matrix[i].curr_state = curr}
  IN IF event = "EVENT_ANY" /\ rows # {}
     THEN [curr_state |-> state_transition_matrix[Min(rows)].next_state,
           fired |-> <<state_function[state_transition_matrix[Min(rows)].next_state]>>]
     ELSE TransitionFrom(1, curr, event)

\* void Transition(STATE_MACHINE_STRUCT*, EVENT_ENUM event, FILE*)
Transition(curr, event) == TransitionFrom(1, curr, event)

\* ---------------------------------------------------- the warnings thread
\* One iteration of GenerateWarnings' loop body under warnings_cs, begun
\* when the exit check of line 229 finds warnings_event_handle not set.
GenerateWarnings ==
  /\ pcMain # "crashed"
  /\ pcWarnings = "run"
  /\ ~warnings_event
  /\ annRead' = IF warnings_flag THEN "set" ELSE "clear"
  /\ IF warnings_flag
     THEN IF sm_curr_state = "STATE_WARNING_ON"
          THEN IF IsTimeout(now, warning_off_timestamp, warning_duration)
               THEN LET t == Transition(sm_curr_state, "EVENT_WARNING_OFF")
                    IN /\ warning_on_timestamp' = now
                       /\ sm_curr_state' = t.curr_state
                       /\ fired' = t.fired
                       /\ transT' = [prev |-> transT.last, last |-> now]
                       /\ logged' = Log(logged, t.fired)
                       /\ UNCHANGED warning_off_timestamp
               ELSE /\ fired' = <<>>
                    /\ UNCHANGED <<sm_curr_state, warning_on_timestamp, warning_off_timestamp,
                                   transT, logged>>
          ELSE IF IsTimeout(now, warning_on_timestamp, warning_duration)
               THEN LET t == Transition(sm_curr_state, "EVENT_WARNING_ON")
                    IN /\ warning_off_timestamp' = now
                       /\ sm_curr_state' = t.curr_state
                       /\ fired' = t.fired
                       /\ transT' = [prev |-> transT.last, last |-> now]
                       /\ logged' = Log(logged, t.fired)
                       /\ UNCHANGED warning_on_timestamp
               ELSE /\ fired' = <<>>
                    /\ UNCHANGED <<sm_curr_state, warning_on_timestamp, warning_off_timestamp,
                                   transT, logged>>
     ELSE /\ fired' = <<>>
          /\ logged' = [logged EXCEPT !.idle = TRUE]
          /\ UNCHANGED <<sm_curr_state, warning_on_timestamp, warning_off_timestamp, transT>>
  /\ UNCHANGED <<now, pcMain, winVars, alertVars, boxVars, trailVars, shutVars, lockVars>>

Next == Tick \/ GeneratePulses \/ MainEvict \/ MainInsert \/ MainEvaluate \/ GenerateWarnings

Spec == Init /\ [][Next]_vars

\* ------------------------------------------------------------- shutdown
\* The clock passes start_time + measurement_duration_limit.  The limit lies
\* beyond MaxTime, so the deadline is let pass at any moment: what shutdown
\* does may not depend on when it starts.
Expire ==
  /\ ~expired
  /\ pcMain # "crashed"
  /\ expired' = TRUE
  /\ UNCHANGED <<now, pcMain, winVars, alertVars, boxVars, fsmVars, trailVars, lockVars,
                 pulses_event, warnings_event, pcPulses, pcWarnings, late>>

\* Lines 85 and 144: the loop condition fails; SetEvent(pulses_event_handle)
MainSignalPulses ==
  /\ pcMain = "poll"
  /\ expired
  /\ pulses_event' = TRUE
  /\ pcMain' = "signalled"
  /\ UNCHANGED <<now, winVars, alertVars, boxVars, fsmVars, trailVars, lockVars,
                 expired, warnings_event, pcPulses, pcWarnings, late>>

\* Line 145: SetEvent(warnings_event_handle)
MainSignalWarnings ==
  /\ pcMain = "signalled"
  /\ warnings_event' = TRUE
  /\ pcMain' = "join"
  /\ UNCHANGED <<now, winVars, alertVars, boxVars, fsmVars, trailVars, lockVars,
                 expired, pulses_event, pcPulses, pcWarnings, late>>

\* Lines 178-179: GeneratePulses returns when warnings_event_handle is set
PulsesReturn ==
  /\ pcPulses = "run"
  /\ pcMain # "crashed"
  /\ warnings_event
  /\ pcPulses' = "done"
  /\ UNCHANGED <<now, pcMain, winVars, alertVars, boxVars, fsmVars, trailVars, lockVars,
                 expired, pulses_event, warnings_event, pcWarnings, late>>

\* Lines 229-230: GenerateWarnings returns when warnings_event_handle is set
WarningsReturn ==
  /\ pcWarnings = "run"
  /\ pcMain # "crashed"
  /\ warnings_event
  /\ pcWarnings' = "done"
  /\ UNCHANGED <<now, pcMain, winVars, alertVars, boxVars, fsmVars, trailVars, lockVars,
                 expired, pulses_event, warnings_event, pcPulses, late>>

\* Lines 148-160: both waits on the thread handles return; main returns
MainJoin ==
  /\ pcMain = "join"
  /\ pcPulses = "done"
  /\ pcWarnings = "done"
  /\ pcMain' = "returned"
  /\ UNCHANGED <<now, winVars, alertVars, boxVars, fsmVars, trailVars, lockVars, shutVars>>

\* The producer, with every pulse of one width
ShutdownGeneratePulses == GeneratePulsesOf(ShutdownWidths)

\* The steps of the main thread; at most one is enabled at a time
MainThread ==
  \/ MainEvict \/ MainInsert \/ MainEvaluate
  \/ MainSignalPulses \/ MainSignalWarnings \/ MainJoin

NextShutdown ==
  \/ Tick \/ Expire \/ ShutdownGeneratePulses \/ GenerateWarnings
  \/ MainThread \/ PulsesReturn \/ WarningsReturn

\* The scheduler lets every thread that can take a step take one in the end.
FairShutdown ==
  /\ WF_vars(MainThread)
  /\ WF_vars(PulsesReturn)
  /\ WF_vars(WarningsReturn)

SpecShutdown == Init /\ [][NextShutdown]_vars /\ FairShutdown

\* ------------------------------------------------- the critical sections
\* The three loops statement by statement, as far as the critical sections
\* and the log are concerned.  pc[t] is the source line thread t executes
\* next.  What the window holds is left out: the outcome of a test on it is
\* any outcome.
Threads == {"main", "pulses", "warnings"}

\* What no statement of the three threads touches at this level
lockRest ==
  <<now, pcMain, winVars, current_time, warning_alert_timestamp, crossT, prev_alert, lost,
    warning_on_timestamp, warning_off_timestamp, annRead, fired, transT, logged, trailVars,
    pcPulses, pcWarnings, late>>

\* What the statements inside the loops never touch
lockFrame == <<lockRest, expired, pulses_event, warnings_event>>

\* What they share
lockData == <<pulse, warning_alert_flag, warnings_flag, sm_curr_state>>

logVars == <<open, mixed, bare>>

Goto(t, to) == pc' = [pc EXCEPT ![t] = to]

\* LeaveCriticalSection that leaves the section owned
LeaveCriticalSection_Kept(t, cs, from, to) ==
  /\ pc[t] = from
  /\ Goto(t, to)
  /\ UNCHANGED <<owner, lockData, logVars, lockFrame>>

\* EnterCriticalSection that does not wait
EnterCriticalSection_NoWait(t, cs, from, to) ==
  /\ pc[t] = from
  /\ owner' = [owner EXCEPT ![cs] = t]
  /\ Goto(t, to)
  /\ UNCHANGED <<lockData, logVars, lockFrame>>

\* EnterCriticalSection(&cs): waits until no other thread is inside
EnterCriticalSection(t, cs, from, to) ==
  /\ pc[t] = from
  /\ owner[cs] \in {"free", t}
  /\ owner' = [owner EXCEPT ![cs] = t]
  /\ Goto(t, to)
  /\ UNCHANGED <<lockData, logVars, lockFrame>>

\* LeaveCriticalSection(&cs)
LeaveCriticalSection(t, cs, from, to) ==
  /\ pc[t] = from
  /\ owner' = [owner EXCEPT ![cs] = "free"]
  /\ Goto(t, to)
  /\ UNCHANGED <<lockData, logVars, lockFrame>>

\* The effect on the log of thread t writing; ends: the text ends with "\n"
Logged(t, ends) ==
  /\ bare' = (bare \/ owner["prints_cs"] # t)
  /\ mixed' = (mixed \/ open \notin {"none", t})
  /\ open' = IF ends THEN "none" ELSE t

\* PrintStr / PrintInt / PrintTemp / PrintFloat calls of one statement group
Write(t, from, to, ends) ==
  /\ pc[t] = from
  /\ Logged(t, ends)
  /\ Goto(t, to)
  /\ UNCHANGED <<owner, lockData, lockFrame>>

\* A statement that touches neither a critical section nor the log nor the
\* shared data: a sleep, a call that works on the window
Step(t, from, to) ==
  /\ pc[t] = from
  /\ Goto(t, to)
  /\ UNCHANGED <<owner, lockData, logVars, lockFrame>>

\* Line 90: if (pulse.valid == true)
MainTestValid ==
  /\ pc["main"] = "m90"
  /\ Goto("main", IF pulse.valid THEN "m92" ELSE "m138")
  /\ UNCHANGED <<owner, lockData, logVars, lockFrame>>

\* Line 92: pulse.valid = false
MainClearValid ==
  /\ pc["main"] = "m92"
  /\ pulse' = TakePulse(pulse)
  /\ Goto("main", "m94")
  /\ UNCHANGED <<owner, warning_alert_flag, warnings_flag, sm_curr_state, logVars, lockFrame>>

\* Lines 112-125: if (temp_median > temp_warning_threshold), either way
MainTestMedian ==
  /\ pc["main"] = "m112"
  /\ \E above \in BOOLEAN :
       /\ warning_alert_flag' = above
       /\ Goto("main", IF above THEN "m116" ELSE "m127")
  /\ UNCHANGED <<owner, pulse, warnings_flag, sm_curr_state, logVars, lockFrame>>

\* Lines 133-134: warnings_flag = warning_alert_flag && IsTimeout(...), the
\* timeout either way
MainPublish ==
  /\ pc["main"] = "m133"
  /\ \E timeout \in BOOLEAN : warnings_flag' = (warning_alert_flag /\ timeout)
  /\ Goto("main", "m135")
  /\ UNCHANGED <<owner, pulse, warning_alert_flag, sm_curr_state, logVars, lockFrame>>

\* Line 85: while (GetSystemTime() < (start_time + measurement_duration_limit))
MainLoopTest ==
  /\ pc["main"] = "m85"
  /\ Goto("main", IF expired THEN "m144" ELSE "m87")
  /\ UNCHANGED <<owner, lockData, logVars, lockFrame>>

\* Lines 144 and 145: SetEvent(pulses_event_handle); SetEvent(warnings_event_handle)
MainSetEvent(from, to) ==
  /\ pc["main"] = from
  /\ IF from = "m144"
     THEN pulses_event' = TRUE /\ UNCHANGED warnings_event
     ELSE warnings_event' = TRUE /\ UNCHANGED pulses_event
  /\ Goto("main", to)
  /\ UNCHANGED <<owner, lockData, logVars, lockRest, expired>>

\* Lines 148 and 149: WaitForSingleObject(thread handle, INFINITE)
MainWaitThread(t, from, to) ==
  /\ pc["main"] = from
  /\ pc[t] = "done"
  /\ Goto("main", to)
  /\ UNCHANGED <<owner, lockData, logVars, lockFrame>>

\* Lines 178 and 229: if (WaitForSingleObject(warnings_event_handle, 0) ==
\* WAIT_OBJECT_0) return 0
ExitCheck(t, from, to) ==
  /\ pc[t] = from
  /\ Goto(t, IF warnings_event THEN "done" ELSE to)
  /\ UNCHANGED <<owner, lockData, logVars, lockFrame>>

\* Lines 85-149: one statement of main's loop or of what follows it
MainLoop ==
  \/ MainLoopTest
  \/ MainSetEvent("m144", "m145")
  \/ MainSetEvent("m145", "m148")
  \/ MainWaitThread("pulses", "m148", "m149")
  \/ MainWaitThread("warnings", "m149", "returned")
  \/ EnterCriticalSection("main", "pulses_cs", "m87", "m90")
  \/ MainTestValid
  \/ MainClearValid
  \/ EnterCriticalSection("main", "prints_cs", "m94", "m95")
  \/ Write("main", "m95", "m96", TRUE)      \* DeleteStalePulses: "Stale: ...\n"
  \/ Step("main", "m95", "m96")             \* DeleteStalePulses on an empty list
  \/ LeaveCriticalSection("main", "prints_cs", "m96", "m98")
  \/ Step("main", "m98", "m100")            \* InsertPulse
  \/ Write("main", "m100", "m100n", FALSE)  \* PrintList: "List:  " and the values
  \/ Write("main", "m100", "m100", FALSE)   \* PrintList going round a cyclic list
  \/ Write("main", "m100n", "m102", TRUE)   \* PrintList: "\n"
  \/ Step("main", "m102", "m104")           \* FindMedian
  \/ EnterCriticalSection("main", "prints_cs", "m104", "m105")
  \/ Write("main", "m105", "m107", FALSE)   \* "Median:" and the value
  \/ LeaveCriticalSection("main", "prints_cs", "m107", "m112")
  \/ MainTestMedian
  \/ EnterCriticalSection("main", "prints_cs", "m116", "m117")
  \/ Write("main", "m117", "m120", TRUE)    \* " - Alert duration", value, "\n"
  \/ LeaveCriticalSection("main", "prints_cs", "m120", "m132")
  \/ EnterCriticalSection("main", "prints_cs", "m127", "m128")
  \/ Write("main", "m128", "m129", TRUE)    \* "\n"
  \/ LeaveCriticalSection("main", "prints_cs", "m129", "m132")
  \/ EnterCriticalSection("main", "warnings_cs", "m132", "m133")
  \/ MainPublish
  \/ LeaveCriticalSection("main", "warnings_cs", "m135", "m138")
  \/ LeaveCriticalSection("main", "pulses_cs", "m138", "m140")
  \/ Step("main", "m140", "m85")            \* Sleep(polling_time_interval)

\* Line 183: pulse = GeneratePulse(lower, upper)
PulsesDraw ==
  /\ pc["pulses"] = "p183"
  /\ \E w \in ShutdownWidths : pulse' = GeneratePulse(w)
  /\ Goto("pulses", "p185")
  /\ UNCHANGED <<owner, warning_alert_flag, warnings_flag, sm_curr_state, logVars, lockFrame>>

\* Lines 195-196: pulse.timestamp = GetSystemTime(); pulse.valid = true
PulsesSetValid ==
  /\ pc["pulses"] = "p195"
  /\ pulse' = Publish(pulse, pulse, now)
  /\ Goto("pulses", "p198")
  /\ UNCHANGED <<owner, warning_alert_flag, warnings_flag, sm_curr_state, logVars, lockFrame>>

\* GeneratePulses' loop entering prints_cs first and pulses_cs inside it
PulsesLoop_PrintsFirst ==
  \/ ExitCheck("pulses", "p178", "p181")
  \/ EnterCriticalSection("pulses", "prints_cs", "p181", "p185")
  \/ EnterCriticalSection("pulses", "pulses_cs", "p185", "p183")
  \/ Write("pulses", "p183", "p189", TRUE)
  \/ LeaveCriticalSection("pulses", "prints_cs", "p189", "p192")
  \/ Step("pulses", "p192", "p195")
  \/ PulsesSetValid
  \/ LeaveCriticalSection("pulses", "pulses_cs", "p198", "p201")
  \/ Step("pulses", "p201", "p178")

\* Lines 178-201: one statement of GeneratePulses' loop
PulsesLoop ==
  \/ ExitCheck("pulses", "p178", "p181")
  \/ EnterCriticalSection("pulses", "pulses_cs", "p181", "p183")
  \/ PulsesDraw
  \/ EnterCriticalSection("pulses", "prints_cs", "p185", "p186")
  \/ Write("pulses", "p186", "p189", TRUE)  \* "New:   ", value, "\n"
  \/ LeaveCriticalSection("pulses", "prints_cs", "p189", "p192")
  \/ Step("pulses", "p192", "p195")         \* Sleep(pulse.width)
  \/ PulsesSetValid
  \/ LeaveCriticalSection("pulses", "pulses_cs", "p198", "p201")
  \/ Step("pulses", "p201", "p178")         \* Sleep(pulse_interval)

\* Lines 234-255: if (warnings_flag == true), the switch on the current
\* state and the IsTimeout test, either way
WarningsTest ==
  /\ pc["warnings"] = "w234"
  /\ \E timeout \in BOOLEAN :
       Goto("warnings",
            IF warnings_flag /\ timeout
            THEN (IF sm_curr_state = "STATE_WARNING_ON" THEN "w246" ELSE "w259")
            ELSE "w268")
  /\ UNCHANGED <<owner, lockData, logVars, lockFrame>>

\* Lines 247 and 260: Transition(&state_machine, event, fptr); the state
\* function writes "\tWarning On\n" or "\tWarning Off\n"
WarningsTransition(event, from, to) ==
  /\ pc["warnings"] = from
  /\ LET t == Transition(sm_curr_state, event)
     IN /\ sm_curr_state' = t.curr_state
        /\ IF t.fired # <<>> THEN Logged("warnings", TRUE) ELSE UNCHANGED logVars
  /\ Goto("warnings", to)
  /\ UNCHANGED <<owner, pulse, warning_alert_flag, warnings_flag, lockFrame>>

\* Lines 229-270: one statement of GenerateWarnings' loop
WarningsLoop ==
  \/ ExitCheck("warnings", "w229", "w232")
  \/ EnterCriticalSection("warnings", "warnings_cs", "w232", "w234")
  \/ WarningsTest
  \/ EnterCriticalSection("warnings", "prints_cs", "w246", "w247")
  \/ WarningsTransition("EVENT_WARNING_OFF", "w247", "w248")
  \/ LeaveCriticalSection("warnings", "prints_cs", "w248", "w268")
  \/ EnterCriticalSection("warnings", "prints_cs", "w259", "w260")
  \/ WarningsTransition("EVENT_WARNING_ON", "w260", "w261")
  \/ LeaveCriticalSection("warnings", "prints_cs", "w261", "w268")
  \/ LeaveCriticalSection("warnings", "warnings_cs", "w268", "w270")
  \/ Step("warnings", "w270", "w229")       \* Sleep(1)

\* A statement of one of the three threads
ThreadStep == MainLoop \/ PulsesLoop \/ WarningsLoop

NextLocks == ThreadStep \/ Expire

SpecLocks == Init /\ [][NextLocks]_vars

\* Where a thread sleeps, changes the window, enters warnings_cs, enters one
\* of the two outer critical sections
Sleeps == {"m140", "p192", "p201", "w270"}
WindowWrites == {"m95", "m98"}
WarningsEntries == {"m132", "w232"}
OuterEntries == {"m87", "m132", "p181", "w232"}

\* Where main has found the valid bit set and has yet to copy the pulse
\* (lines 92-98); where the mailbox holds a pulse drawn and not yet stamped
\* (lines 185-195)
Consuming == {"m92", "m94", "m95", "m96", "m98"}
Unstamped == {"p185", "p186", "p189", "p192", "p195"}

\* ------------------------------------------- Transition on its own
\* Transition called on a machine set up by Init(), with any event.
CallTransition ==
  /\ Len(eventTrail) < MaxCalls
  /\ \E e \in Events :
       LET t == Transition(sm_curr_state, e)
       IN /\ sm_curr_state' = t.curr_state
          /\ fired' = t.fired
          /\ eventTrail' = Append(eventTrail, e)
          /\ stateTrail' = Append(stateTrail, t.curr_state)
          /\ actionTrail' = Append(actionTrail, t.fired)
  /\ UNCHANGED <<now, pcMain, winVars, alertVars, boxVars,
                 warning_on_timestamp, warning_off_timestamp, annRead, transT, logged,
                 shutVars, lockVars>>

NextFSM == CallTransition

SpecFSM == Init /\ [][NextFSM]_vars

\* ------------------------------------------- FindMedian on its own
\* The list InsertPulse builds from the widths ws, inserted in that order
\* into an empty list, the i-th at address i.
RECURSIVE BuildList(_)
BuildList(ws) ==
  IF ws = <<>> THEN [head_ptr |-> NULL, nodes |-> [a \in Addr |-> EmptyNode]]
  ELSE LET n == Len(ws)
           b == BuildList(SubSeq(ws, 1, n - 1))
           p == [valid |-> FALSE, width |-> ws[n], timestamp |-> 0]
           r == InsertPulse(b.head_ptr, n, MakeNode(n, p, b.nodes))
       IN [head_ptr |-> r.head_ptr, nodes |-> r.nodes]

WidthSeqs == UNION {[1..n -> Widths] : n \in 0..MaxNodes}

InitMedian ==
  /\ \E ws \in WidthSeqs :
       /\ nodes = BuildList(ws).nodes
       /\ head_ptr = BuildList(ws).head_ptr
       /\ stat = [a \in Addr |-> IF a <= Len(ws) THEN "live" ELSE "free"]
  /\ now = 0
  /\ pulse = [valid |-> FALSE, width |-> 0, timestamp |-> 0]
  /\ pcMain = "inserted"
  /\ temp_median2 = 0
  /\ current_time = 0
  /\ warning_alert_flag = FALSE
  /\ warning_alert_timestamp = 0
  /\ warnings_flag = FALSE
  /\ evict = NoEviction
  /\ uaf = {}
  /\ lost = {}
  /\ inserted = {}
  /\ crossT = -1
  /\ prev_alert = FALSE
  /\ sm_curr_state = "STATE_WARNING_OFF"
  /\ warning_on_timestamp = 0
  /\ warning_off_timestamp = 0
  /\ annRead = "none"
  /\ fired = <<>>
  /\ transT = [prev |-> 0, last |-> 0]
  /\ logged = NothingLogged
  /\ eventTrail = <<>>
  /\ stateTrail = <<>>
  /\ actionTrail = <<>>
  /\ expired = FALSE
  /\ pulses_event = FALSE
  /\ warnings_event = FALSE
  /\ pcPulses = "run"
  /\ pcWarnings = "run"
  /\ late = {}
  /\ pc = [main |-> "m85", pulses |-> "p178", warnings |-> "w229"]
  /\ owner = [pulses_cs |-> "free", warnings_cs |-> "free", prints_cs |-> "free"]
  /\ open = "none"
  /\ mixed = FALSE
  /\ bare = FALSE

\* temp_median = FindMedian(head_ptr)
CallFindMedian ==
  /\ pcMain = "inserted"
  /\ temp_median2' = FindMedian2(head_ptr, nodes)
  /\ pcMain' = "median"
  /\ UNCHANGED <<now, nodes, stat, head_ptr, evict, uaf, inserted,
                 alertVars, boxVars, fsmVars, trailVars, shutVars, lockVars>>

NextMedian == CallFindMedian

\* ------------------------------------------- InsertPulse on its own
\* InsertPulse(&head_ptr, MakeNode(pulse)) on a list built by InsertPulse,
\* with a pulse of any width, at the lowest unused address.
CallInsertPulse ==
  /\ pcMain = "inserted"
  /\ \E a \in Addr : stat[a] = "free"
  /\ \E w \in Widths :
       LET a == Min({x \in Addr : stat[x] = "free"})
           p == [valid |-> FALSE, width |-> w, timestamp |-> 0]
           r == InsertPulse(head_ptr, a, MakeNode(a, p, nodes))
       IN /\ pulse' = p
          /\ nodes' = r.nodes
          /\ head_ptr' = r.head_ptr
          /\ stat' = [stat EXCEPT ![a] = "live"]
  /\ pcMain' = "grown"
  /\ UNCHANGED <<now, temp_median2, evict, uaf, inserted, lost,
                 alertVars, fsmVars, trailVars, shutVars, lockVars>>

NextInsert == CallInsertPulse

SpecInsert == InitMedian /\ [][NextInsert]_vars

SpecMedian == InitMedian /\ [][NextMedian]_vars

\* ================================================================ claims
Window == Chain(head_ptr, nodes)

WindowWidths == [i \in 1..Len(Window) |-> nodes[Window[i]].width]

\* C1: after every iteration of the main loop (eviction, then InsertPulse) the
\* widths of the list, head to tail, are non-decreasing.
C1_WindowSorted ==
  pcMain \in {"inserted", "poll"} =>
    \A i \in 1..(Len(Window) - 1) : WindowWidths[i] <= WindowWidths[i + 1]

\* C2: after the eviction pass with reference timestamp T every sample still
\* in main's list has timestamp + 1000 >= T, and every sample removed had
\* timestamp + 1000 < T.
C2_EvictionExact ==
  pcMain = "evicted" =>
    /\ \A i \in 1..Len(Window) : nodes[Window[i]].timestamp + ONE_SEC >= evict.T
    /\ \A i \in 1..Len(evict.removed) : evict.removed[i].timestamp + ONE_SEC < evict.T

\* C3: the eviction pass frees each node once, after it head_ptr and every
\* next link reachable from it refer to live nodes, and InsertPulse,
\* PrintList and FindMedian read no freed node.
C3_MemorySafe ==
  /\ ~evict.dbl
  /\ \A i, j \in 1..Len(evict.freed) : evict.freed[i] = evict.freed[j] => i = j
  /\ pcMain = "evicted" => \A i \in 1..Len(Window) : stat[Window[i]] = "live"
  /\ uaf \cap {"InsertPulse", "PrintList", "FindMedian"} = {}

\* The k-th smallest of the widths in the list, by rank
KthWidth(k) ==
  Min({w \in Range(WindowWidths) :
         Cardinality({i \in 1..Len(Window) : WindowWidths[i] <= w}) >= k})

MedianLaw2 ==
  LET n == Len(Window)
  IN IF n = 0 THEN 0
     ELSE IF n % 2 = 1 THEN 2 * KthWidth((n + 1) \div 2)
     ELSE KthWidth(n \div 2) + KthWidth((n \div 2) + 1)

\* C4: FindMedian returns the middle value of an odd-length list, the mean of
\* the two middle values of an even-length one, and 0 for the empty list.
C4_MedianLaw == pcMain = "median" => temp_median2 = MedianLaw2

C4_Witness ==
  /\ pcMain = "median"
  /\ Len(Window) = 4
  /\ temp_median2 = 141

\* C5: while the median has been above the threshold since the evaluation at
\* crossT, the published flag is not true before crossT + 1000 ms.
C5_SustainFromCrossing ==
  (warnings_flag /\ crossT # -1) => now >= crossT + warning_threshold

\* C6: after an evaluation that found the median at or below the threshold
\* the published flag is false and the alert timestamp is that evaluation's
\* current time; the flag is true only when the time since that timestamp
\* has reached the warning threshold.
C6_ClearedOnDrop ==
  /\ temp_median2 <= 2 * temp_warning_threshold =>
       (~warnings_flag /\ ~warning_alert_flag /\ warning_alert_timestamp = current_time)
  /\ warnings_flag =>
       (temp_median2 > 2 * temp_warning_threshold
        /\ current_time - warning_alert_timestamp >= warning_threshold)

C6_Witness ==
  /\ pcMain = "poll"
  /\ prev_alert
  /\ temp_median2 <= 2 * temp_warning_threshold
  /\ current_time > 0
  /\ warning_alert_timestamp = current_time
  /\ ~warnings_flag

\* C7: a pulse overwritten in the mailbox before main took it is never
\* inserted into the list, and none of the list's nodes holds it.
C7_OverwrittenNeverInserted ==
  /\ lost \cap inserted = {}
  /\ \A a \in Addr : stat[a] = "live" => nodes[a].timestamp \notin lost

C7_Witness ==
  /\ pcMain = "inserted"
  /\ \E x \in lost : pulse.timestamp > x /\ pulse.timestamp \in inserted

\* C8: after an iteration of the warnings thread that read the flag clear the
\* state machine is in STATE_WARNING_OFF and no state function was called.
C8_ResetOnClear ==
  annRead = "clear" => (sm_curr_state = "STATE_WARNING_OFF" /\ fired = <<>>)

Alternating(events) ==
  \A i \in 1..Len(events) :
    events[i] = (IF i % 2 = 1 THEN "EVENT_WARNING_ON" ELSE "EVENT_WARNING_OFF")

StateBefore(i) == IF i = 1 THEN "STATE_WARNING_OFF" ELSE stateTrail[i - 1]

\* C9: from STATE_WARNING_OFF, Transition called with events ON, OFF, ON, ...
\* moves the state ON, OFF, ON, ..., and every call invokes exactly one
\* function: Warning_On on entering ON, Warning_Off on entering OFF.
C9_Alternation ==
  Alternating(eventTrail) =>
    \A i \in 1..Len(eventTrail) :
      /\ stateTrail[i] = (IF i % 2 = 1 THEN "STATE_WARNING_ON" ELSE "STATE_WARNING_OFF")
      /\ stateTrail[i] # StateBefore(i)
      /\ actionTrail[i] = (IF i % 2 = 1 THEN <<"Warning_On">> ELSE <<"Warning_Off">>)

C9_Witness ==
  /\ Len(eventTrail) >= 4
  /\ Alternating(eventTrail)
  /\ sm_curr_state = "STATE_WARNING_OFF"

Unmatched(state, event) ==
  \/ event = "EVENT_ANY"
  \/ (state = "STATE_WARNING_ON" /\ event = "EVENT_WARNING_ON")
  \/ (state = "STATE_WARNING_OFF" /\ event = "EVENT_WARNING_OFF")

\* C10: a call of Transition with a (state, event) pair that matches no row
\* leaves the state as it was and invokes no function.
C10_UnmatchedNoOp ==
  \A i \in 1..Len(eventTrail) :
    Unmatched(StateBefore(i), eventTrail[i]) =>
      (stateTrail[i] = StateBefore(i) /\ actionTrail[i] = <<>>)

C10_Witness ==
  /\ Len(eventTrail) >= 3
  /\ \E i, j, k \in 1..Len(eventTrail) :
       /\ eventTrail[i] = "EVENT_ANY"
       /\ StateBefore(j) = "STATE_WARNING_ON" /\ eventTrail[j] = "EVENT_WARNING_ON"
       /\ StateBefore(k) = "STATE_WARNING_OFF" /\ eventTrail[k] = "EVENT_WARNING_OFF"
       /\ StateBefore(i) = "STATE_WARNING_ON"

\* C16: the warnings thread calls a state function in an iteration only if it
\* read the flag set and at least warning_duration has passed since its
\* previous transition (since its start, before the first one); an iteration
\* that read the flag clear calls none.
C16_FiresOnlyWhenSetAndDue ==
  /\ fired # <<>> =>
       (annRead = "set" /\ transT.last - transT.prev >= warning_duration)
  /\ annRead = "clear" => fired = <<>>

C16_Witness ==
  /\ fired = <<"Warning_Off">>
  /\ annRead = "set"
  /\ transT.prev > 0
  /\ transT.last > transT.prev

\* C17: after an evaluation the alert is raised exactly when the median,
\* converted to a temperature by ConvertPulseWidthToTemp, exceeds 70 degrees.
C17_AlertIffTempAbove ==
  warning_alert_flag <=>
    (ConvertPulseWidthToTemp(temp_median2) > 20000 * temp_warning_threshold)

\* The nodes of a list that are not stale with respect to T, in list order,
\* each with the sample it holds
Survivors(h, ns, T) ==
  LET fresh(a) == ~StaleNode(ns[a], T)
      c == SelectSeq(Chain(h, ns), fresh)
  IN [i \in 1..Len(c) |-> [addr |-> c[i], sample |-> Sample(ns[c[i]])]]

SortedSamples(q) ==
  \A i \in 1..(Len(q) - 1) : q[i].sample.width <= q[i + 1].sample.width

\* C18: the list DeleteStalePulses returns holds the samples that were not
\* stale: the same nodes, with the same field values, in the same order;
\* sorted before, they are sorted after.
C18_SurvivorsKept ==
  [][(pcMain = "poll" /\ pcMain' = "evicted") =>
       /\ Survivors(evict'.head, nodes', pulse.timestamp)
            = Survivors(head_ptr, nodes, pulse.timestamp)
       /\ SortedSamples(Survivors(head_ptr, nodes, pulse.timestamp))
            => SortedSamples(Survivors(evict'.head, nodes', pulse.timestamp))]_vars

C18_Witness ==
  /\ pcMain = "evicted"
  /\ evict.printed # <<>>
  /\ Len(Survivors(evict.head, nodes, evict.T)) >= 2
  /\ \A i \in 1..Len(Window) : stat[Window[i]] = "live"

\* C19: the samples written on the "Stale:" line of an eviction pass are the
\* samples the pass removed.
C19_RemovedAreLogged ==
  pcMain = "evicted" => Range(evict.printed) = Range(evict.removed)

\* C20: InsertPulse puts the new node right before the first node whose width
\* is greater than or equal to the new width, at the tail when there is none;
\* the other nodes keep their order and content, the list grows by one.
C20_InsertPlacement ==
  [][(pcMain = "inserted" /\ pcMain' = "grown") =>
       LET pre == Chain(head_ptr, nodes)
           post == Chain(head_ptr', nodes')
           n == Len(pre)
           w == pulse'.width
           a == Min({x \in Addr : stat[x] = "free"})
           ge == {i \in 1..n : nodes[pre[i]].width >= w}
           k == IF ge = {} THEN n + 1 ELSE Min(ge)
       IN /\ post = SubSeq(pre, 1, k - 1) \o <<a>> \o SubSeq(pre, k, n)
          /\ Len(post) = n + 1
          /\ nodes'[a].width = w
          /\ \A i \in 1..n : Sample(nodes'[pre[i]]) = Sample(nodes[pre[i]])]_vars

C20_Witness ==
  /\ pcMain = "grown"
  /\ \E i \in 2..(Len(Window) - 1) :
       /\ stat[Window[i]] = "live"
       /\ \A x \in Addr : stat[x] = "live" => x <= Window[i]
       /\ nodes[Window[i + 1]].width = pulse.width
       /\ nodes[Window[i - 1]].width < pulse.width

\* C14: once the deadline is reached main sets both exit events, both worker
\* threads then return, and main returns, only after both workers have; the
\* events are set only after the deadline.
C14_Shutdown ==
  /\ expired ~> (pulses_event /\ warnings_event)
  /\ warnings_event ~> (pcPulses = "done" /\ pcWarnings = "done")
  /\ [](pcMain = "returned" => (pcPulses = "done" /\ pcWarnings = "done"))
  /\ []((pulses_event \/ warnings_event) => expired)

\* C15: a worker whose own exit event is set begins no further loop
\* iteration (pulses_event_handle for GeneratePulses, warnings_event_handle
\* for GenerateWarnings).
C15_NoIterationAfterSignal == late = {}

\* C11: every write to the log is made by a thread that holds prints_cs, and
\* no thread's output lands inside a line another thread has begun and not
\* ended.
C11_LogSerialized == ~bare /\ ~mixed

\* C12: a thread inside pulses_cs is not at a sleep, not at a call that
\* changes the window, and not entering warnings_cs.
C12_MailboxLockBrief ==
  \A t \in Threads :
    owner["pulses_cs"] = t => pc[t] \notin (Sleeps \cup WindowWrites \cup WarningsEntries)

\* C13: a thread inside prints_cs is never at an EnterCriticalSection of
\* pulses_cs or warnings_cs.
C13_PrintLockInnermost ==
  \A t \in Threads : owner["prints_cs"] = t => pc[t] \notin OuterEntries

C13_Witness ==
  /\ owner["prints_cs"] = "main"
  /\ owner["pulses_cs"] = "main"
  /\ owner["warnings_cs"] = "warnings"
  /\ pc["warnings"] \in {"w246", "w259"}

\* C22: over a run the state functions the warnings thread invokes alternate,
\* and the first one is Warning_On, whether or not the flag was read clear in
\* between.
C22_ActionsAlternate ==
  /\ logged.first \in {"none", "Warning_On"}
  /\ Len(logged.acts) = 2 => logged.acts[1] # logged.acts[2]

C22_Witness ==
  /\ logged.acts = <<"Warning_On", "Warning_Off">>
  /\ logged.gap

\* C23: a pulse is inserted into the list at most once (pulses are told
\* apart by their arrival time), the valid bit is cleared when main takes the
\* pulse, and the list changes only in an iteration that found it set.
C23_InsertedOnce ==
  [][/\ (pcMain = "evicted" /\ pcMain' = "inserted") =>
          (pulse.timestamp \notin inserted /\ ~pulse.valid)
     /\ (pcMain = "poll" /\ pcMain' \in {"evicted", "crashed"}) =>
          (pulse.valid /\ ~pulse'.valid)
     /\ (head_ptr' # head_ptr \/ Chain(head_ptr', nodes') # Chain(head_ptr, nodes)) =>
          (pcMain = "evicted" \/ (pcMain = "poll" /\ pulse.valid))]_vars

C23_Witness ==
  /\ pcMain = "poll"
  /\ ~pulse.valid
  /\ Cardinality(inserted) >= 2
  /\ lost = {}

\* C21: before main returns, some thread can take a step: never is every
\* thread that has not returned waiting for a critical section or a join.
C21_NoDeadlock == pc["main"] # "returned" => ENABLED ThreadStep

C21_Witness ==
  /\ pc["pulses"] = "p181"
  /\ owner["pulses_cs"] = "main"
  /\ pc["warnings"] \in {"w246", "w259"}
  /\ owner["prints_cs"] = "main"
  /\ expired

\* C24: when main finds the valid bit set, and as long as it works with the
\* pulse it took, the mailbox holds no pulse that is drawn and not yet
\* stamped: what main reads was written whole, by one iteration of the
\* producer, the timestamp after the sleep for the width.
C24_WholeSample ==
  (pc["main"] \in Consuming \/ (pc["main"] = "m90" /\ pulse.valid)) =>
    (pc["pulses"] \notin Unstamped /\ owner["pulses_cs"] = "main")

C24_Witness ==
  /\ pc["main"] = "m98"
  /\ pc["pulses"] = "p181"
  /\ pulse.width \in ShutdownWidths

====
